---- MODULE Spec2Model ----
(***************************************************************************)
(* Model of collect-universal-entertainment.js: the CMS page-model parsing *)
(* functions (findCalendarConfig, checkTemporarilyClosed, findValueByKey,  *)
(* extractBlockInfo, parseCalendarConfig), the change detection            *)
(* (detectChanges) and the collection loop (processShow, main).            *)
(*                                                                         *)
(* JSON values are tagged records; a JavaScript string is a sequence of    *)
(* one-character strings, so that split, toLowerCase and includes are      *)
(* computed rather than assumed.  An object keeps its keys in insertion    *)
(* order as a sequence of <<key, value>> pairs.                            *)
(***************************************************************************)
EXTENDS Integers, Sequences, FiniteSets, TLC

VARIABLES
    pc,                \* position of the running function / of main
    blockData,         \* extractBlockInfo: argument
    blockInfo,         \* extractBlockInfo: returned value
    calendarConfig,    \* parseCalendarConfig: argument / processShow local
    cmsData,           \* processShow local: the fetched page model
    isClosed,          \* processShow local
    newSchedules,      \* processShow local / detectChanges argument
    currentStatus,     \* processShow local
    existingSchedules, \* processShow local / detectChanges argument
    changes,           \* processShow local / detectChanges result
    showIdx,           \* main: index of the show being processed
    results,           \* main: results array
    calls,             \* collaborator calls made so far in this run
    failed,            \* collaborator calls of the current show that failed
    upserted,          \* records handed to upsertSchedules for the current show
    statusRecord,      \* record handed to upsertShowStatus for the current show
    store,             \* rows of the table universal_entertainment_schedules
    today,             \* the date new Date() gives during the run
    summary            \* main: the totals it prints

runVars == << showIdx, results, calls, failed, upserted, statusRecord, store,
             today, summary >>

vars == << pc, blockData, blockInfo, calendarConfig, cmsData, isClosed,
           newSchedules, currentStatus, existingSchedules, changes, runVars >>

-----------------------------------------------------------------------------
(* JSON values and the JavaScript operations the code applies to them.     *)

JNull == [t |-> "null"]
JUndef == [t |-> "undefined"]
JStr(s) == [t |-> "string", s |-> s]
JNum(n) == [t |-> "number", n |-> n]
JArr(items) == [t |-> "array", items |-> items]
JObj(kv) == [t |-> "object", kv |-> kv]

\* The value thrown by a property access on null/undefined, by a call of a
\* method the value does not have, or by iterating a non-iterable.
TypeError == [t |-> "TypeError"]

Nullish(v) == v.t \in {"null", "undefined"}

\* JavaScript truthiness (if (x), x || y, !x).
Truthy(v) ==
    CASE v.t = "string" -> v.s # <<>>
      [] v.t = "number" -> v.n # 0
      [] v.t \in {"object", "array"} -> TRUE
      [] OTHER -> FALSE

HasKey(v, k) == v.t = "object" /\ \E i \in DOMAIN v.kv : v.kv[i][1] = k

\* v.k for a non-nullish v: undefined when v has no own key k.
Prop(v, k) ==
    IF HasKey(v, k)
    THEN v.kv[CHOOSE i \in DOMAIN v.kv : v.kv[i][1] = k][2]
    ELSE JUndef

\* v?.k
OptProp(v, k) == IF Nullish(v) THEN JUndef ELSE Prop(v, k)

\* v?.[0]
OptFirst(v) ==
    CASE v.t = "array" -> IF v.items # <<>> THEN v.items[1] ELSE JUndef
      [] v.t = "string" -> IF v.s # <<>> THEN JStr(<<v.s[1]>>) ELSE JUndef
      [] OTHER -> JUndef

\* a || b
Or(a, b) == IF Truthy(a) THEN a ELSE b

\* for (const x of v): the elements iterated, for an array or a string.
Iterable(v) == v.t \in {"array", "string"}
Elements(v) ==
    IF v.t = "array" THEN v.items ELSE [i \in DOMAIN v.s |-> JStr(<<v.s[i]>>)]

Upper == << "A", "B", "C", "D", "E", "F", "G", "H", "I", "J", "K", "L", "M",
            "N", "O", "P", "Q", "R", "S", "T", "U", "V", "W", "X", "Y", "Z" >>
Lower == << "a", "b", "c", "d", "e", "f", "g", "h", "i", "j", "k", "l", "m",
            "n", "o", "p", "q", "r", "s", "t", "u", "v", "w", "x", "y", "z" >>

\* String.prototype.toLowerCase on a character sequence.
toLowerCase(s) ==
    [i \in DOMAIN s |->
        IF \E j \in DOMAIN Upper : Upper[j] = s[i]
        THEN Lower[CHOOSE j \in DOMAIN Upper : Upper[j] = s[i]]
        ELSE s[i]]

\* String.prototype.includes
includes(s, sub) ==
    \E i \in 0..(Len(s) - Len(sub)) : SubSeq(s, i + 1, i + Len(sub)) = sub

\* s.split(sep)[0] for a one-character separator: the text before its first
\* occurrence, the whole text when it does not occur.
splitFirst(s, sep) ==
    IF \E i \in DOMAIN s : s[i] = sep
    THEN SubSeq(s, 1, (CHOOSE i \in DOMAIN s :
                          /\ s[i] = sep
                          /\ \A j \in 1..(i - 1) : s[j] # sep) - 1)
    ELSE s

-----------------------------------------------------------------------------
(* findCalendarConfig                                                      *)

FindCalendarMaxDepth == 25

\* Variant of the code: no branch is skipped.
skippedKeys_none == {}

\* Line 97: the keys whose values are not searched.
skippedKeys == {"MetadataFields", "Categories", "Multimedia"}

\* The values a for-of over an array, or the loop over Object.keys of an
\* object, visits, and the key of each (arrays have none).
NumChildren(obj) == IF obj.t = "array" THEN Len(obj.items) ELSE Len(obj.kv)
ChildAt(obj, i) == IF obj.t = "array" THEN obj.items[i] ELSE obj.kv[i][2]
Skipped(obj, i) == obj.t = "object" /\ obj.kv[i][1] \in skippedKeys

RECURSIVE findCalendarConfig(_, _)
RECURSIVE findCalendarInChildren(_, _, _)

findCalendarConfig(obj, depth) ==
    CASE depth > FindCalendarMaxDepth \/ ~Truthy(obj) \/ obj.t \notin {"object", "array"} ->
            JNull
      [] Truthy(Prop(obj, "calendarConfig")) ->
            Prop(obj, "calendarConfig")
      [] Truthy(Prop(obj, "Fields")) /\ Truthy(Prop(Prop(obj, "Fields"), "calendarConfig")) ->
            Prop(Prop(obj, "Fields"), "calendarConfig")
      [] OTHER ->
            findCalendarInChildren(obj, 1, depth)

\* Lines 86-100: the two loops, from child i on.  An excluded key is passed
\* over; the first truthy result is returned and ends the loop (a result is
\* null or a truthy calendarConfig, so if (result) is result !== null).
findCalendarInChildren(obj, i, depth) ==
    LET result == findCalendarConfig(ChildAt(obj, i), depth + 1)
    IN  CASE i > NumChildren(obj) -> JNull
          [] Skipped(obj, i) -> findCalendarInChildren(obj, i + 1, depth)
          [] result # JNull -> result
          [] OTHER -> findCalendarInChildren(obj, i + 1, depth)

-----------------------------------------------------------------------------
(* checkTemporarilyClosed                                                  *)

temporarilyClosed ==
    <<"t", "e", "m", "p", "o", "r", "a", "r", "i", "l", "y", " ",
      "c", "l", "o", "s", "e", "d">>

\* Variant of the code: the description is compared as written.
isClosedText_caseSensitive(desc) == includes(desc, temporarilyClosed)

\* Line 116: desc.toLowerCase().includes('temporarily closed')
isClosedText(desc) == includes(toLowerCase(desc), temporarilyClosed)

\* What the body of the try block does: "true" when it returns true, "end"
\* when the loops run to their end, "threw" when a TypeError is raised.
RECURSIVE scanFeatures(_, _)
scanFeatures(features, j) ==
    IF j > Len(features) THEN "end"
    ELSE LET feature == features[j]
             desc == Or(OptFirst(OptProp(OptProp(Prop(feature, "Fields"),
                                                 "description"), "Values")),
                        JStr(<<>>))
         IN  IF Nullish(feature) THEN "threw"
             ELSE IF desc.t # "string" THEN "threw"
             ELSE IF isClosedText(desc.s) THEN "true"
             ELSE scanFeatures(features, j + 1)

RECURSIVE scanPresentations(_, _)
scanPresentations(presentations, i) ==
    IF i > Len(presentations) THEN "end"
    ELSE LET cp == presentations[i]
             features == Or(OptProp(OptProp(OptProp(Prop(cp, "Component"), "Fields"),
                                            "featureList"), "LinkedComponentValues"),
                            JArr(<<>>))
         IN  IF Nullish(cp) THEN "threw"
             ELSE IF ~Iterable(features) THEN "threw"
             ELSE LET inner == scanFeatures(Elements(features), 1)
                  IN  IF inner = "end"
                      THEN scanPresentations(presentations, i + 1)
                      ELSE inner

checkTemporarilyClosed(data) ==
    LET presentations == Or(Prop(data, "ComponentPresentations"), JArr(<<>>))
    IN  /\ ~Nullish(data)
        /\ Iterable(presentations)
        /\ scanPresentations(Elements(presentations), 1) = "true"

-----------------------------------------------------------------------------
(* findValueByKey                                                          *)

FindValueMaxDepth == 10

RECURSIVE findValueByKey(_, _, _)
RECURSIVE findValueInItems(_, _, _, _)
RECURSIVE findValueInKeys(_, _, _, _)

findValueByKey(obj, targetKey, depth) ==
    IF depth > FindValueMaxDepth \/ ~Truthy(obj) \/ obj.t \notin {"object", "array"}
    THEN JNull
    ELSE IF obj.t = "array"
         THEN findValueInItems(obj.items, 1, targetKey, depth)
         ELSE findValueInKeys(obj.kv, 1, targetKey, depth)

\* for (const item of obj) { ... if (result !== null) return result; }
findValueInItems(items, i, targetKey, depth) ==
    IF i > Len(items) THEN JNull
    ELSE LET result == findValueByKey(items[i], targetKey, depth + 1)
         IN  IF result # JNull THEN result
             ELSE findValueInItems(items, i + 1, targetKey, depth)

\* for (const key of Object.keys(obj)) { if (key === targetKey) return obj[key]; ... }
findValueInKeys(kv, i, targetKey, depth) ==
    IF i > Len(kv) THEN JNull
    ELSE IF kv[i][1] = targetKey THEN kv[i][2]
    ELSE LET result == findValueByKey(kv[i][2], targetKey, depth + 1)
         IN  IF result # JNull THEN result
             ELSE findValueInKeys(kv, i + 1, targetKey, depth)

-----------------------------------------------------------------------------
(* extractBlockInfo                                                        *)

Unknown == <<"U", "n", "k", "n", "o", "w", "n">>
disabled == <<"d", "i", "s", "a", "b", "l", "e", "d">>

\* blockData.EmbeddedValues || blockData.LinkedComponentValues || blockData.Values || []
entryList(node) ==
    Or(Prop(node, "EmbeddedValues"),
       Or(Prop(node, "LinkedComponentValues"),
          Or(Prop(node, "Values"), JArr(<<>>))))

\* x.Values?.[0] || x.Value || dflt
valueOf(x, dflt) == Or(OptFirst(Prop(x, "Values")), Or(Prop(x, "Value"), dflt))

\* Lines 184-199: the first entry of the entry list, read at its two
\* documented places; TypeError when the entry is null or its style no string.
fastPath(bd) ==
    LET blockEntries == entryList(bd)
    IN  IF ~(blockEntries.t = "array" /\ blockEntries.items # <<>>)
        THEN [showTime |-> JStr(Unknown), isTentative |-> FALSE]
        ELSE LET block == blockEntries.items[1]
             IN  IF Nullish(block) THEN TypeError
                 ELSE LET eyebrowObj == Or(Prop(block, "eyebrow"),
                                           OptProp(Prop(block, "Fields"), "eyebrow"))
                          styleObj == Or(Prop(block, "style"),
                                         OptProp(Prop(block, "Fields"), "style"))
                          styleVal == valueOf(styleObj, JStr(<<>>))
                      IN  IF Truthy(styleObj) /\ styleVal.t # "string"
                          THEN TypeError
                          ELSE [showTime |->
                                   IF Truthy(eyebrowObj)
                                   THEN valueOf(eyebrowObj, JStr(Unknown))
                                   ELSE JStr(Unknown),
                                isTentative |->
                                   /\ Truthy(styleObj)
                                   /\ includes(toLowerCase(styleVal.s), disabled)]

\* Lines 202-208: if (showTime === 'Unknown') { findValueByKey(blockData, 'eyebrow') ... }
eyebrowFallback(bd, showTime) ==
    LET eyebrowFound == findValueByKey(bd, "eyebrow", 0)
    IN  IF showTime = JStr(Unknown) /\ Truthy(eyebrowFound)
        THEN valueOf(eyebrowFound,
                     IF eyebrowFound.t = "string" THEN eyebrowFound
                     ELSE JStr(Unknown))
        ELSE showTime

\* Lines 211-218: if (!isTentative) { findValueByKey(blockData, 'style') ... }
\* TypeError when the style found is no string.
styleFallback(bd, isTentative) ==
    LET styleFound == findValueByKey(bd, "style", 0)
        styleVal == valueOf(styleFound,
                            IF styleFound.t = "string" THEN styleFound
                            ELSE JStr(<<>>))
    IN  IF ~isTentative /\ Truthy(styleFound)
        THEN IF styleVal.t # "string" THEN TypeError
             ELSE [isTentative |-> includes(toLowerCase(styleVal.s), disabled)]
        ELSE [isTentative |-> isTentative]

extractBlockInfo(bd) ==
    IF ~Truthy(bd) THEN [showTime |-> JStr(Unknown), isTentative |-> FALSE]
    ELSE LET fast == fastPath(bd)
         IN  IF fast = TypeError THEN TypeError
             ELSE LET tentative == styleFallback(bd, fast.isTentative)
                  IN  IF tentative = TypeError THEN TypeError
                      ELSE [showTime |-> eyebrowFallback(bd, fast.showTime),
                            isTentative |-> tentative.isTentative]

-----------------------------------------------------------------------------
(* parseCalendarConfig                                                     *)

\* A function's normal completion; TypeError is its abrupt one.
Return(v) == [t |-> "return", value |-> v]

\* v.length === 0
LengthIsZero(v) ==
    \/ v.t = "array" /\ v.items = <<>>
    \/ v.t = "string" /\ v.s = <<>>

\* Lines 239-253: the debug listing of the first dated entry's blockData reads
\* Object.keys(val[0]) / val[0].Fields of every non-empty array under it, which
\* throws when that first element is null.
debugThrows(bd) ==
    /\ Truthy(bd)
    /\ bd.t = "object"
    /\ \E i \in DOMAIN bd.kv :
          LET val == bd.kv[i][2]
          IN  val.t = "array" /\ val.items # <<>> /\ Nullish(val.items[1])

\* Lines 263-271: one record per date-time string of the entry.
entryRecords(dateTimeValues, info) ==
    [i \in DOMAIN dateTimeValues |->
        [schedule_date |-> splitFirst(dateTimeValues[i].s, "T"),
         show_time |-> info.showTime,
         status |-> IF info.isTentative THEN "TENTATIVE" ELSE "SCHEDULED",
         is_available |-> ~info.isTentative]]

RECURSIVE parseEntries(_, _, _, _)
\* Lines 233-272: the loop over the entries, from entry i on, with the records
\* pushed so far.
parseEntries(entries, i, debugged, schedules) ==
    IF i > Len(entries) THEN Return(schedules)
    ELSE LET entry == entries[i]
         IN
         IF Nullish(entry) THEN TypeError
         ELSE
         LET dateTimeValues == Or(OptProp(Prop(entry, "eventDates"), "DateTimeValues"),
                                  JArr(<<>>))
             bd == Prop(entry, "blockData")
             info == extractBlockInfo(bd)
         IN
         IF LengthIsZero(dateTimeValues)
         THEN parseEntries(entries, i + 1, debugged, schedules)
         ELSE IF ~debugged /\ debugThrows(bd) THEN TypeError
         ELSE IF info = TypeError THEN TypeError
         ELSE IF ~Iterable(dateTimeValues) THEN TypeError
         ELSE IF \E j \in DOMAIN Elements(dateTimeValues) :
                     Elements(dateTimeValues)[j].t # "string"
              THEN TypeError
         ELSE parseEntries(entries, i + 1, TRUE,
                           schedules \o entryRecords(Elements(dateTimeValues), info))

\* Variant of the code: the loop over the entries starts one entry late.
parseCalendarConfig_skipFirst(cc) ==
    LET entries == entryList(cc)
    IN  IF entries.t # "array" THEN Return(<<>>)
        ELSE parseEntries(entries.items, 2, FALSE, <<>>)

parseCalendarConfig(cc) ==
    LET entries == entryList(cc)
    IN  IF entries.t # "array" THEN Return(<<>>)
        ELSE parseEntries(entries.items, 1, FALSE, <<>>)

-----------------------------------------------------------------------------
(* detectChanges                                                           *)

\* Lines 362-366: the Map of the existing records by schedule_date; a later
\* record of the same date replaces an earlier one.
existingMap(existing) ==
    [d \in {existing[i].schedule_date : i \in DOMAIN existing} |->
        existing[CHOOSE i \in DOMAIN existing :
                    /\ existing[i].schedule_date = d
                    /\ \A j \in DOMAIN existing :
                          existing[j].schedule_date = d => j <= i]]

\* The fields every change record carries; change_description is kept as the
\* leading words of its template.
ChangeRecord(showConfig, date, description, old, new, severity) ==
    [change_type |-> "ENTERTAINMENT",
     entity_id |-> showConfig.show_id,
     entity_name |-> showConfig.show_name,
     change_date |-> date,
     change_description |-> description,
     old_value |-> old,
     new_value |-> new,
     severity |-> severity]

\* Lines 369-411: the records pushed for one new record.
changesForNew(showConfig, newRec, map) ==
    IF newRec.schedule_date \notin DOMAIN map
    THEN << ChangeRecord(showConfig, newRec.schedule_date, "New show date added",
                         JNull,
                         [show_time |-> newRec.show_time, status |-> newRec.status],
                         "LOW") >>
    ELSE LET existing == map[newRec.schedule_date]
         IN  (IF existing.show_time # newRec.show_time
              THEN << ChangeRecord(showConfig, newRec.schedule_date, "Show time changed",
                                   [show_time |-> existing.show_time],
                                   [show_time |-> newRec.show_time],
                                   "MEDIUM") >>
              ELSE <<>>)
             \o
             (IF existing.status # newRec.status
              THEN << ChangeRecord(showConfig, newRec.schedule_date, "Status changed",
                                   [status |-> existing.status],
                                   [status |-> newRec.status],
                                   "MEDIUM") >>
              ELSE <<>>)

RECURSIVE changesForNewFrom(_, _, _, _)
\* Lines 368-412: the loop over newSchedules, from record i on.
changesForNewFrom(showConfig, new, i, map) ==
    IF i > Len(new) THEN <<>>
    ELSE changesForNew(showConfig, new[i], map)
         \o changesForNewFrom(showConfig, new, i + 1, map)

RECURSIVE removalsFrom(_, _, _, _)
\* Lines 415-429: the loop over existingSchedules, from record i on.
removalsFrom(showConfig, existing, i, newDateSet) ==
    IF i > Len(existing) THEN <<>>
    ELSE (IF existing[i].schedule_date \notin newDateSet
          THEN << ChangeRecord(showConfig, existing[i].schedule_date, "Show date removed",
                               [show_time |-> existing[i].show_time,
                                status |-> existing[i].status],
                               JNull,
                               "HIGH") >>
          ELSE <<>>)
         \o removalsFrom(showConfig, existing, i + 1, newDateSet)

\* Variant of the code: a date whose time and status both changed gets one merged record.
detectChanges_merged(showConfig, new, existing) ==
    LET all == changesForNewFrom(showConfig, new, 1, existingMap(existing))
              \o removalsFrom(showConfig, existing, 1,
                              {new[i].schedule_date : i \in DOMAIN new})
        keep == {i \in DOMAIN all :
                    ~(/\ i > 1
                      /\ all[i].change_description = "Status changed"
                      /\ all[i - 1].change_description = "Show time changed"
                      /\ all[i - 1].change_date = all[i].change_date)}
        RECURSIVE pick(_)
        pick(i) == IF i > Len(all) THEN <<>>
                   ELSE (IF i \in keep THEN <<all[i]>> ELSE <<>>) \o pick(i + 1)
    IN  pick(1)

\* Variant of the code: the removed dates are reported ahead of the new and changed ones.
detectChanges_removalsFirst(showConfig, new, existing) ==
    removalsFrom(showConfig, existing, 1, {new[i].schedule_date : i \in DOMAIN new})
    \o changesForNewFrom(showConfig, new, 1, existingMap(existing))

detectChanges(showConfig, new, existing) ==
    changesForNewFrom(showConfig, new, 1, existingMap(existing))
    \o removalsFrom(showConfig, existing, 1, {new[i].schedule_date : i \in DOMAIN new})

-----------------------------------------------------------------------------
(* TRACKED_SHOWS: the third entry is written with the keys id, name, park, *)
(* type and url, so its show_id, show_name and cms_url are undefined.      *)

Undefined == "undefined"

TRACKED_SHOWS ==
    << [show_id |-> "universal-studios-cinesational",
        show_name |-> "CineSational: A Symphonic Spectacular",
        cms_url |-> "shows/cinesational-symphonic-spectacular"],
       [show_id |-> "universal-studios-mega-movie-parade",
        show_name |-> "Universal Mega Movie Parade",
        cms_url |-> "shows/universal-mega-movie-parade"],
       [show_id |-> Undefined,
        show_name |-> Undefined,
        cms_url |-> Undefined],
       [show_id |-> "islands-of-adventure-hogwarts-lights",
        show_name |-> "The Nighttime Lights at Hogwarts Castle",
        cms_url |-> "entertainment/the-nighttime-lights-at-hogwarts-castle"] >>

-----------------------------------------------------------------------------
(* Page-model fragments the inputs are built from.                         *)

SeqsUpTo(S, n) == UNION {[1..k -> S] : k \in 0..n}

Label1 == <<"8", ":", "3", "0", " ", "P", "M">>
Label2 == <<"9", " ", "P", "M">>
ActiveStyle == <<"A", "c", "t", "i", "v", "e", " ", "S", "t", "y", "l", "e">>
DisabledStyle == <<"D", "i", "s", "a", "b", "l", "e", "d", " ", "S", "t", "y", "l", "e">>

\* { Values: [text] }
TextField(text) == JObj(<< <<"Values", JArr(<<JStr(text)>>)>> >>)

Places == {"none", "direct", "Fields", "deep"}

\* One entry of a blockData entry list, its eyebrow and its style each absent,
\* directly on the entry, under Fields, or deeper (under Component.Fields).
BlockEntry(eyebrowAt, label, styleAt, style) ==
    LET at(place) ==
            (IF eyebrowAt = place THEN << <<"eyebrow", TextField(label)>> >> ELSE <<>>)
            \o (IF styleAt = place THEN << <<"style", TextField(style)>> >> ELSE <<>>)
        wrap(key, kv) == IF kv = <<>> THEN <<>> ELSE << <<key, JObj(kv)>> >>
    IN  JObj(wrap("Component", wrap("Fields", at("deep")))
             \o wrap("Fields", at("Fields"))
             \o at("direct"))

FirstEntries ==
    {BlockEntry(e, Label1, s, st) :
        e \in Places, s \in Places, st \in {ActiveStyle, DisabledStyle}}

OtherEntries ==
    {BlockEntry("direct", Label2, "direct", st) : st \in {ActiveStyle, DisabledStyle}}

MaxBlockEntries == 2

\* blockData objects: optionally a LinkedComponentValues list ahead of the
\* EmbeddedValues list, whose first entry is followed by up to
\* MaxBlockEntries - 1 further entries.
BlockInputs ==
    {JObj(pre \o << <<"EmbeddedValues", JArr(<<first>> \o rest)>> >>) :
        pre \in {<<>>} \cup {<< <<"LinkedComponentValues", JArr(<<o>>)>> >> : o \in OtherEntries},
        first \in FirstEntries,
        rest \in SeqsUpTo(OtherEntries, MaxBlockEntries - 1)}
    \cup {JUndef, JNull, JObj(<<>>),
          JObj(<< <<"EmbeddedValues", JArr(<<>>)>>,
                  <<"LinkedComponentValues", JArr(<<BlockEntry("direct", Label2, "direct", DisabledStyle)>>)>> >>),
          JObj(<< <<"Values", JArr(<<BlockEntry("direct", Label2, "none", ActiveStyle)>>)>> >>),
          JObj(<< <<"EmbeddedValues", JArr(<<JNull>>)>> >>),
          JObj(<< <<"eyebrow", JStr(Label2)>>, <<"style", JStr(DisabledStyle)>> >>)}

\* Date-time strings: two on the same calendar date; Jan6 is a date-time
\* string without a time of day, on the next day.
Jan5 == <<"0", "1", "-", "0", "5">>
Jan6 == <<"0", "1", "-", "0", "6">>
Jan7 == <<"0", "1", "-", "0", "7">>
DateTimes ==
    {Jan5 \o <<"T", "0", "0">>, Jan5 \o <<"T", "2", "0">>}

\* The blockData of a calendar entry: a scheduled time, a tentative one.
ScheduledBlock ==
    JObj(<< <<"EmbeddedValues", JArr(<<BlockEntry("direct", Label1, "direct", ActiveStyle)>>)>> >>)
TentativeBlock ==
    JObj(<< <<"EmbeddedValues", JArr(<<BlockEntry("Fields", Label2, "Fields", DisabledStyle)>>)>> >>)

\* { eventDates: { DateTimeValues: [...] }, blockData: ... }
CalendarEntry(dts, bd) ==
    JObj(<< <<"eventDates",
              JObj(<< <<"DateTimeValues", JArr([i \in DOMAIN dts |-> JStr(dts[i])])>> >>)>>,
            <<"blockData", bd>> >>)

MaxDates == 2
MaxEntries == 2

CalendarEntries ==
    {CalendarEntry(dts, bd) :
        dts \in SeqsUpTo(DateTimes, MaxDates), bd \in {ScheduledBlock, TentativeBlock}}
    \cup {CalendarEntry(<<Jan6>>, TentativeBlock),
          CalendarEntry(<<Jan6 \o <<"T", "0", "0">>, Jan5 \o <<"T", "0", "0">> >>, ScheduledBlock),
          JObj(<< <<"blockData", ScheduledBlock>> >>),
          JNull}

CalendarInputs ==
    {JObj(<< <<"EmbeddedValues", JArr(entries)>> >>) :
        entries \in SeqsUpTo(CalendarEntries, MaxEntries)}
    \cup {JObj(<<>>),
          JObj(<< <<"EmbeddedValues", JStr(Label1)>> >>),
          JObj(<< <<"LinkedComponentValues",
                    JArr(<<CalendarEntry(<<Jan6>>, TentativeBlock)>>)>> >>)}

\* Schedule records the differ is given.  The new ones are any parsed record;
\* the existing ones are rows of the table, which is UNIQUE(show_id,
\* schedule_date), so an existing list holds a date once.
ScheduleDates == {Jan5, Jan6, Jan7}

ScheduleRecord(date, label, status) ==
    [schedule_date |-> date, show_time |-> JStr(label), status |-> status,
     is_available |-> (status = "SCHEDULED")]

NewRecords ==
    {ScheduleRecord(d, l, st) :
        d \in ScheduleDates, l \in {Label1, Label2}, st \in {"SCHEDULED", "TENTATIVE"}}

ExistingRecords ==
    {ScheduleRecord(d, Label1, "SCHEDULED") : d \in ScheduleDates}
    \cup {ScheduleRecord(d, Label2, "TENTATIVE") : d \in ScheduleDates}

UniqueDates(list) ==
    \A i, j \in DOMAIN list : list[i].schedule_date = list[j].schedule_date => i = j

MaxNew == 2
MaxExisting == 2

\* Page models for the calendar search: a node of up to MaxKeys keys, each
\* key holding a calendar, a null, or a child that holds one, placed under a
\* chain of single-child objects and arrays of a given length.
CalendarA == JObj(<< <<"EmbeddedValues", JArr(<<CalendarEntry(<<Jan5>>, ScheduledBlock)>>)>> >>)
CalendarB == JObj(<< <<"EmbeddedValues", JArr(<<CalendarEntry(<<Jan6>>, TentativeBlock)>>)>> >>)

Holder(calendar) == JObj(<< <<"calendarConfig", calendar>> >>)

NodePairs ==
    {<<"calendarConfig", c>> : c \in {CalendarA, JNull}}
    \cup {<<k, v>> :
            k \in {"Fields", "MetadataFields", "Component", "Multimedia"},
            v \in {Holder(CalendarA), Holder(CalendarB), JArr(<<Holder(CalendarB)>>)}}

MaxKeys == 2

SearchNodes ==
    {JObj(kv) : kv \in {q \in SeqsUpTo(NodePairs, MaxKeys) :
                          \A i, j \in DOMAIN q : q[i][1] = q[j][1] => i = j}}

RECURSIVE Chain(_, _)
\* v under n levels, objects and arrays alternating.
Chain(n, v) ==
    CASE n = 0 -> v
      [] n > 0 /\ n % 2 = 0 -> [t |-> "object", kv |-> << <<"Component", Chain(n - 1, v)>> >>]
      [] OTHER -> [t |-> "array", items |-> <<Chain(n - 1, v)>>]

ChainLengths ==
    {0, 1, FindCalendarMaxDepth - 1, FindCalendarMaxDepth, FindCalendarMaxDepth + 1}

SearchInputs == {Chain(n, node) : n \in ChainLengths, node \in SearchNodes}

\* Page models for the closure scan: component presentations whose feature
\* lists hold up to MaxFeatures features, a feature being a closure notice
\* (in mixed case), another text, or null.
ClosedNotice ==
    <<"T", "e", "m", "p", "o", "r", "a", "r", "i", "l", "y", " ",
      "C", "l", "o", "s", "e", "d", ".">>
OtherNotice == <<"C", "l", "o", "s", "e", "d", " ", "c", "a", "p", "t", "i", "o", "n", "s">>

\* { Fields: { description: { Values: [value] } } }
Feature(value) ==
    JObj(<< <<"Fields", JObj(<< <<"description",
                                  JObj(<< <<"Values", JArr(<<value>>)>> >>)>> >>)>> >>)

\* { Component: { Fields: { featureList: { LinkedComponentValues: features } } } }
Presentation(features) ==
    JObj(<< <<"Component",
              JObj(<< <<"Fields",
                        JObj(<< <<"featureList",
                                  JObj(<< <<"LinkedComponentValues", features>> >>)>> >>)>> >>)>> >>)

Features == {Feature(JStr(ClosedNotice)), Feature(JStr(OtherNotice)), JNull}

MaxFeatures == 2
MaxPresentations == 2

Presentations ==
    {Presentation(JArr(features)) : features \in SeqsUpTo(Features, MaxFeatures)}
    \cup {JNull,
          JObj(<< <<"Component", JNull>> >>),
          Presentation(JArr(<<Feature(JNum(5)), Feature(JStr(ClosedNotice))>>)),
          Presentation(JArr(<<JObj(<<>>), Feature(JStr(ClosedNotice))>>)),
          Presentation(JNum(5))}

ClosureInputs ==
    {JObj(<< <<"ComponentPresentations", JArr(cps)>> >>) :
        cps \in SeqsUpTo(Presentations, MaxPresentations)}
    \cup {JNull, JObj(<<>>), JObj(<< <<"ComponentPresentations", JObj(<<>>)>> >>)}

-----------------------------------------------------------------------------
(* Variables a specification does not use keep these values.               *)

NoValue == [t |-> "none"]

IdleRun ==
    /\ showIdx = 0
    /\ results = <<>>
    /\ calls = <<>>
    /\ failed = {}
    /\ upserted = <<>>
    /\ statusRecord = NoValue
    /\ store = {}
    /\ today = NoValue
    /\ summary = NoValue

IdleMain ==
    /\ cmsData = NoValue
    /\ isClosed = FALSE
    /\ currentStatus = "UNKNOWN"
    /\ IdleRun

IdleBlock == blockData = NoValue /\ blockInfo = NoValue
IdleCalendar == calendarConfig = NoValue
IdleDiff == newSchedules = <<>> /\ existingSchedules = <<>> /\ changes = <<>>

-----------------------------------------------------------------------------
(* SpecCalendar: parseCalendarConfig applied to every node of              *)
(* CalendarInputs; newSchedules holds what the call returned or threw.     *)

InitCalendar ==
    /\ pc = "parseCalendarConfig"
    /\ calendarConfig \in CalendarInputs
    /\ newSchedules = NoValue
    /\ existingSchedules = <<>> /\ changes = <<>>
    /\ IdleBlock /\ IdleMain

CallParseCalendarConfig ==
    /\ pc = "parseCalendarConfig"
    /\ newSchedules' = parseCalendarConfig(calendarConfig)
    /\ pc' = "returned"
    /\ UNCHANGED << blockData, blockInfo, calendarConfig, cmsData, isClosed,
                    currentStatus, existingSchedules, changes, runVars >>

NextCalendar == CallParseCalendarConfig

SpecCalendar == InitCalendar /\ [][NextCalendar]_vars

Returned == pc = "returned" /\ newSchedules.t = "return"

\* C2: the list parseCalendarConfig returns holds at most one record per
\* schedule_date.
C2_OneRecordPerDate ==
    Returned =>
        \A i, j \in DOMAIN newSchedules.value :
            newSchedules.value[i].schedule_date = newSchedules.value[j].schedule_date
                => i = j

\* The entries of a calendar node and the date-time strings of an entry, as
\* the input lists them.
EntriesOf(cc) == IF entryList(cc).t = "array" THEN entryList(cc).items ELSE <<>>
DatesOf(entry) ==
    LET field == OptProp(Prop(entry, "eventDates"), "DateTimeValues")
    IN  IF field.t = "array" THEN field.items ELSE <<>>

\* The number of date-time strings the entries before entry k list.
RECURSIVE Offset(_, _)
Offset(entries, k) ==
    IF k <= 1 THEN 0 ELSE Offset(entries, k - 1) + Len(DatesOf(entries[k - 1]))

\* date is dt cut before its first "T" (all of dt when it has none).
IsTruncation(date, dt) ==
    /\ Len(date) <= Len(dt)
    /\ \A i \in DOMAIN date : date[i] = dt[i] /\ date[i] # "T"
    /\ Len(date) < Len(dt) => dt[Len(date) + 1] = "T"

\* C4: parseCalendarConfig returns, in input order, one record per date-time
\* string of each entry: entry k's d-th string is record Offset(k) + d, its
\* schedule_date the string cut before "T", its show_time and status the
\* entry's decoded block (TENTATIVE iff decoded tentative, is_available iff
\* SCHEDULED); an entry without dates adds nothing; nothing is re-sorted.
C4_FanOutInInputOrder ==
    Returned =>
        LET es == EntriesOf(calendarConfig)
            out == newSchedules.value
        IN  /\ Len(out) = Offset(es, Len(es) + 1)
            /\ \A k \in DOMAIN es : \A d \in DOMAIN DatesOf(es[k]) :
                  LET r == out[Offset(es, k) + d]
                      info == extractBlockInfo(Prop(es[k], "blockData"))
                  IN  /\ IsTruncation(r.schedule_date, DatesOf(es[k])[d].s)
                      /\ r.show_time = info.showTime
                      /\ r.status = (IF info.isTentative THEN "TENTATIVE" ELSE "SCHEDULED")
                      /\ r.is_available = (r.status = "SCHEDULED")

\* Two entries, the first with two dates listed out of date order, the second
\* tentative: four records, the later date first.
C4_Witness ==
    /\ Returned
    /\ Len(EntriesOf(calendarConfig)) = 2
    /\ Len(newSchedules.value) = 4
    /\ newSchedules.value[1].schedule_date = Jan6
    /\ newSchedules.value[2].schedule_date = Jan5
    /\ newSchedules.value[1].status = "SCHEDULED"
    /\ newSchedules.value[3].status = "TENTATIVE"
    /\ newSchedules.value[3].show_time = JStr(Label2)

-----------------------------------------------------------------------------
(* SpecFind: findCalendarConfig applied to every page model of             *)
(* SearchInputs.                                                           *)

InitFind ==
    /\ pc = "findCalendarConfig"
    /\ cmsData \in SearchInputs
    /\ calendarConfig = NoValue
    /\ isClosed = FALSE /\ currentStatus = "UNKNOWN"
    /\ IdleRun
    /\ IdleBlock /\ IdleDiff

CallFindCalendarConfig ==
    /\ pc = "findCalendarConfig"
    /\ calendarConfig' = findCalendarConfig(cmsData, 0)
    /\ pc' = "returned"
    /\ UNCHANGED << blockData, blockInfo, cmsData, isClosed, newSchedules,
                    currentStatus, existingSchedules, changes, runVars >>

NextFind == CallFindCalendarConfig

SpecFind == InitFind /\ [][NextFind]_vars

\* The children of a node the search may descend into, by position.
Descendable(v) ==
    IF v.t = "array" THEN DOMAIN v.items
    ELSE IF v.t = "object"
    THEN {i \in DOMAIN v.kv : v.kv[i][1] \notin {"MetadataFields", "Categories", "Multimedia"}}
    ELSE {}
Child(v, i) == IF v.t = "array" THEN v.items[i] ELSE v.kv[i][2]

RECURSIVE PathsFrom(_, _)
\* The paths (child positions from v down) to the objects and arrays at most
\* 25 - depth levels below v that avoid the three excluded keys.
PathsFrom(v, depth) ==
    IF depth > 25 \/ v.t \notin {"object", "array"} THEN {}
    ELSE UNION ({{<<>>}} \cup {{<<i>> \o q : q \in PathsFrom(Child(v, i), depth + 1)} :
                                  i \in Descendable(v)})

RECURSIVE NodeAt(_, _)
NodeAt(v, path) == IF path = <<>> THEN v ELSE NodeAt(Child(v, path[1]), Tail(path))

\* Pre-order: a node before its descendants, an earlier child's subtree before
\* a later child's.
PreOrderBefore(p, q) ==
    \/ Len(p) < Len(q) /\ SubSeq(q, 1, Len(p)) = p
    \/ \E i \in DOMAIN p \cap DOMAIN q :
          /\ SubSeq(p, 1, i - 1) = SubSeq(q, 1, i - 1)
          /\ p[i] < q[i]

\* The calendarConfig a node offers: its own, else the one under its Fields.
OwnCalendar(node) == Prop(node, "calendarConfig")
FieldsCalendar(node) == OptProp(Prop(node, "Fields"), "calendarConfig")
Offers(node) == Truthy(OwnCalendar(node)) \/ Truthy(FieldsCalendar(node))
Offered(node) ==
    IF Truthy(OwnCalendar(node)) THEN OwnCalendar(node) ELSE FieldsCalendar(node)

\* C9: findCalendarConfig returns the calendarConfig offered by the first
\* node in pre-order (own calendarConfig, then Fields.calendarConfig, then the
\* children in order) among the nodes within depth 25 of the root that are
\* reached without passing a MetadataFields, Categories or Multimedia key, and
\* null when no such node offers one.
C9_FirstMatchInPreOrder ==
    pc = "returned" =>
        LET hits == {p \in PathsFrom(cmsData, 0) : Offers(NodeAt(cmsData, p))}
        IN  IF hits = {} THEN calendarConfig = JNull
            ELSE \E p \in hits :
                    /\ \A q \in hits : q = p \/ PreOrderBefore(p, q)
                    /\ calendarConfig = Offered(NodeAt(cmsData, p))

\* A calendar under Multimedia only and one more than 25 levels down: null.
C9_WitnessExcluded ==
    /\ pc = "returned"
    /\ calendarConfig = JNull
    /\ \E n \in ChainLengths : \E v \in {Holder(CalendarA), Holder(CalendarB)} :
          cmsData = Chain(n, JObj(<< <<"Multimedia", v>>, <<"Component", v>> >>))

-----------------------------------------------------------------------------
(* SpecClosed: checkTemporarilyClosed applied to every page model of       *)
(* ClosureInputs.                                                          *)

InitClosed ==
    /\ pc = "checkTemporarilyClosed"
    /\ cmsData \in ClosureInputs
    /\ isClosed = FALSE
    /\ currentStatus = "UNKNOWN"
    /\ IdleRun
    /\ IdleBlock /\ IdleCalendar /\ IdleDiff

CallCheckTemporarilyClosed ==
    /\ pc = "checkTemporarilyClosed"
    /\ isClosed' = checkTemporarilyClosed(cmsData)
    /\ pc' = "returned"
    /\ UNCHANGED << blockData, blockInfo, calendarConfig, cmsData, newSchedules,
                    currentStatus, existingSchedules, changes, runVars >>

NextClosed == CallCheckTemporarilyClosed

SpecClosed == InitClosed /\ [][NextClosed]_vars

\* The component presentations of a page model and the features of one, as
\* far as they can be listed.
PresentationsOf(data) ==
    LET field == OptProp(data, "ComponentPresentations")
    IN  IF field.t = "array" THEN field.items ELSE <<>>
FeaturesOf(cp) ==
    LET field == OptProp(OptProp(OptProp(OptProp(cp, "Component"), "Fields"),
                                 "featureList"), "LinkedComponentValues")
    IN  IF field.t = "array" THEN field.items ELSE <<>>
DescriptionOf(feature) ==
    OptFirst(OptProp(OptProp(OptProp(feature, "Fields"), "description"), "Values"))

\* The feature's description is a text that holds "temporarily closed" in
\* some mix of upper and lower case.
HasMarker(feature) ==
    /\ DescriptionOf(feature).t = "string"
    /\ \E i \in 0..(Len(DescriptionOf(feature).s) - 18) :
          toLowerCase(SubSeq(DescriptionOf(feature).s, i + 1, i + 18)) = temporarilyClosed

\* A presentation or feature the scan cannot read: a null presentation, a
\* feature list that is no list, a null feature, a description that is a
\* truthy non-text.
UnreadablePresentation(cp) ==
    \/ Nullish(cp)
    \/ LET field == OptProp(OptProp(OptProp(OptProp(cp, "Component"), "Fields"),
                                    "featureList"), "LinkedComponentValues")
       IN  Truthy(field) /\ field.t \notin {"array", "string"}
UnreadableFeature(feature) ==
    \/ Nullish(feature)
    \/ Truthy(DescriptionOf(feature)) /\ DescriptionOf(feature).t # "string"

\* C5 as claimed: checkTemporarilyClosed is true exactly when some feature
\* of some component presentation has a description holding "temporarily
\* closed", whatever malformed presentation or feature the lists also hold.
C5_MarkerAnywhere ==
    pc = "returned" =>
        (isClosed \in BOOLEAN
         /\ isClosed = \E i \in DOMAIN PresentationsOf(cmsData) :
                          \E j \in DOMAIN FeaturesOf(PresentationsOf(cmsData)[i]) :
                              HasMarker(FeaturesOf(PresentationsOf(cmsData)[i])[j]))

\* C5 as amended: checkTemporarilyClosed returns a boolean and never raises;
\* it is true exactly when some feature has a description holding
\* "temporarily closed" and nothing ahead of it in the order of the scan is
\* unreadable: no presentation up to its own, no feature of an earlier
\* presentation, no earlier feature of its own presentation.
C5_MarkerBeforeUnreadable ==
    pc = "returned" =>
        LET cps == PresentationsOf(cmsData)
        IN  /\ isClosed \in BOOLEAN
            /\ isClosed =
                 \E i \in DOMAIN cps : \E j \in DOMAIN FeaturesOf(cps[i]) :
                    /\ HasMarker(FeaturesOf(cps[i])[j])
                    /\ \A k \in 1..i : ~UnreadablePresentation(cps[k])
                    /\ \A k \in 1..(i - 1) : \A f \in DOMAIN FeaturesOf(cps[k]) :
                          ~UnreadableFeature(FeaturesOf(cps[k])[f])
                    /\ \A f \in 1..(j - 1) : ~UnreadableFeature(FeaturesOf(cps[i])[f])

\* A closure notice that comes after a null presentation is not found.
C5_Witness ==
    /\ pc = "returned"
    /\ ~isClosed
    /\ cmsData = JObj(<< <<"ComponentPresentations",
           JArr(<<JNull, Presentation(JArr(<<Feature(JStr(ClosedNotice))>>))>>)>> >>)

-----------------------------------------------------------------------------
(* SpecDiff: detectChanges applied to every pair of a new and an existing  *)
(* record list.                                                            *)

InitDiff ==
    /\ pc = "detectChanges"
    /\ newSchedules \in SeqsUpTo(NewRecords, MaxNew)
    /\ existingSchedules \in
          {list \in SeqsUpTo(ExistingRecords, MaxExisting) : UniqueDates(list)}
    /\ changes = <<>>
    /\ IdleBlock /\ IdleCalendar /\ IdleMain

CallDetectChanges ==
    /\ pc = "detectChanges"
    /\ changes' = detectChanges(TRACKED_SHOWS[1], newSchedules, existingSchedules)
    /\ pc' = "returned"
    /\ UNCHANGED << blockData, blockInfo, calendarConfig, cmsData, isClosed,
                    newSchedules, currentStatus, existingSchedules, runVars >>

NextDiff == CallDetectChanges

SpecDiff == InitDiff /\ [][NextDiff]_vars

DatesIn(list) == {list[i].schedule_date : i \in DOMAIN list}
RecordAt(list, d) == list[CHOOSE i \in DOMAIN list : list[i].schedule_date = d]
EventsAt(d) == {i \in DOMAIN changes : changes[i].change_date = d}

IsAdd(c, new) ==
    /\ c.severity = "LOW"
    /\ c.old_value = JNull
    /\ c.new_value = [show_time |-> new.show_time, status |-> new.status]
IsRemove(c, old) ==
    /\ c.severity = "HIGH"
    /\ c.new_value = JNull
    /\ c.old_value = [show_time |-> old.show_time, status |-> old.status]
IsTimeChange(c, old, new) ==
    /\ c.severity = "MEDIUM"
    /\ c.old_value = [show_time |-> old.show_time]
    /\ c.new_value = [show_time |-> new.show_time]
IsStatusChange(c, old, new) ==
    /\ c.severity = "MEDIUM"
    /\ c.old_value = [status |-> old.status]
    /\ c.new_value = [status |-> new.status]

\* C1: with one record per date in both lists, detectChanges returns exactly
\* one LOW ADD (old_value null) per date only in the new list, one HIGH REMOVE
\* (new_value null) per date only in the existing list, and per common date a
\* MEDIUM show_time CHANGE iff the show_time values differ and a separate
\* MEDIUM status CHANGE iff the status values differ; and nothing else.
C1_DiffIsExact ==
    (pc = "returned" /\ UniqueDates(newSchedules) /\ UniqueDates(existingSchedules)) =>
        LET N == DatesIn(newSchedules)
            P == DatesIn(existingSchedules)
        IN  /\ \A i \in DOMAIN changes : changes[i].change_date \in N \cup P
            /\ \A d \in N \ P :
                  /\ Cardinality(EventsAt(d)) = 1
                  /\ \A i \in EventsAt(d) : IsAdd(changes[i], RecordAt(newSchedules, d))
            /\ \A d \in P \ N :
                  /\ Cardinality(EventsAt(d)) = 1
                  /\ \A i \in EventsAt(d) : IsRemove(changes[i], RecordAt(existingSchedules, d))
            /\ \A d \in P \cap N :
                  LET old == RecordAt(existingSchedules, d)
                      new == RecordAt(newSchedules, d)
                      time == {i \in EventsAt(d) : IsTimeChange(changes[i], old, new)}
                      status == {i \in EventsAt(d) : IsStatusChange(changes[i], old, new)}
                  IN  /\ EventsAt(d) = time \cup status
                      /\ Cardinality(time) = (IF old.show_time # new.show_time THEN 1 ELSE 0)
                      /\ Cardinality(status) = (IF old.status # new.status THEN 1 ELSE 0)

\* A date added, a date removed and a common date whose time and status both
\* changed: four records.
C1_Witness ==
    /\ pc = "returned"
    /\ UniqueDates(newSchedules)
    /\ DatesIn(newSchedules) = {Jan6, Jan7}
    /\ DatesIn(existingSchedules) = {Jan5, Jan6}
    /\ RecordAt(newSchedules, Jan6).show_time # RecordAt(existingSchedules, Jan6).show_time
    /\ RecordAt(newSchedules, Jan6).status # RecordAt(existingSchedules, Jan6).status
    /\ Len(changes) = 4

\* What a change record reports, read off its old_value and new_value.
Removal(c) == c.new_value = JNull
Addition(c) == c.old_value = JNull
StatusChange(c) == ~Removal(c) /\ ~Addition(c) /\ DOMAIN c.old_value = {"status"}
TimeChange(c) == ~Removal(c) /\ ~Addition(c) /\ DOMAIN c.old_value = {"show_time"}

\* The position a record takes among those of one new record: a show_time
\* CHANGE may be followed by the status CHANGE of that record, nothing follows
\* an ADD or a status CHANGE.
Rank(c) == IF TimeChange(c) THEN 1 ELSE 2

RECURSIVE FollowsNew(_, _, _, _, _)
\* events[i..] can be read off new[p..] front to back, slot being the rank of
\* the last record already read off new[p].
FollowsNew(events, i, new, p, slot) ==
    IF i > Len(events) THEN TRUE
    ELSE IF p > Len(new) THEN FALSE
    ELSE IF events[i].change_date = new[p].schedule_date /\ Rank(events[i]) > slot
         THEN FollowsNew(events, i + 1, new, p, Rank(events[i]))
         ELSE FollowsNew(events, i, new, p + 1, 0)

RECURSIVE FollowsExisting(_, _, _, _)
\* events[i..] can be read off existing[p..] front to back, one per record.
FollowsExisting(events, i, existing, p) ==
    IF i > Len(events) THEN TRUE
    ELSE IF p > Len(existing) THEN FALSE
    ELSE IF events[i].change_date = existing[p].schedule_date
         THEN FollowsExisting(events, i + 1, existing, p + 1)
         ELSE FollowsExisting(events, i, existing, p + 1)

\* C8: in the list detectChanges returns every ADD and CHANGE precedes every
\* REMOVE; the ADDs and CHANGEs follow the order of the new list (for one
\* date the show_time CHANGE before the status CHANGE) and the REMOVEs follow
\* the order of the existing list.
C8_EventOrder ==
    pc = "returned" =>
        LET first == {i \in DOMAIN changes : ~Removal(changes[i])}
            last == {i \in DOMAIN changes : Removal(changes[i])}
        IN  /\ \A i \in first, j \in last : i < j
            /\ FollowsNew(SubSeq(changes, 1, Cardinality(first)), 1, newSchedules, 1, 0)
            /\ FollowsExisting(SubSeq(changes, Cardinality(first) + 1, Len(changes)), 1,
                               existingSchedules, 1)

\* An ADD, then the two CHANGEs of one date, then a REMOVE.
C8_Witness ==
    /\ pc = "returned"
    /\ Len(changes) = 4
    /\ Addition(changes[1])
    /\ TimeChange(changes[2])
    /\ StatusChange(changes[3])
    /\ changes[2].change_date = changes[3].change_date
    /\ Removal(changes[4])

-----------------------------------------------------------------------------
(* SpecBlock: extractBlockInfo applied to every blockData of BlockInputs.  *)

InitBlock ==
    /\ pc = "extractBlockInfo"
    /\ blockData \in BlockInputs
    /\ blockInfo = NoValue
    /\ IdleCalendar /\ IdleDiff /\ IdleMain

CallExtractBlockInfo ==
    /\ pc = "extractBlockInfo"
    /\ blockInfo' = extractBlockInfo(blockData)
    /\ pc' = "returned"
    /\ UNCHANGED << blockData, calendarConfig, cmsData, isClosed, newSchedules,
                    currentStatus, existingSchedules, changes, runVars >>

NextBlock == CallExtractBlockInfo

SpecBlock == InitBlock /\ [][NextBlock]_vars

\* The first entry of the slot's entry list, and what its two fast-path
\* places hold.
FirstBlock(bd) == entryList(bd).items[1]
HasFirstBlock(bd) ==
    /\ Truthy(bd)
    /\ entryList(bd).t = "array"
    /\ entryList(bd).items # <<>>
    /\ ~Nullish(FirstBlock(bd))
FastEyebrow(bd) ==
    Or(Prop(FirstBlock(bd), "eyebrow"), OptProp(Prop(FirstBlock(bd), "Fields"), "eyebrow"))
FastStyle(bd) ==
    Or(Prop(FirstBlock(bd), "style"), OptProp(Prop(FirstBlock(bd), "Fields"), "style"))
SuppliesLabel(bd) == HasFirstBlock(bd) /\ Truthy(FastEyebrow(bd))
SuppliesStyle(bd) == HasFirstBlock(bd) /\ Truthy(FastStyle(bd))

\* C10: in extractBlockInfo the deep search is a per-field fallback.  When the
\* first entry supplies both the label and the style at a fast-path place,
\* the returned showTime and isTentative are those of the first entry alone,
\* whatever later entries or other eyebrow/style keys the slot holds; and when
\* the first entry supplies no label at a fast-path place, the label the deep
\* search finds is returned.
C10_FirstEntryAuthoritative ==
    pc = "returned" =>
        /\ (SuppliesLabel(blockData) /\ SuppliesStyle(blockData)) =>
               /\ blockInfo.showTime = OptFirst(Prop(FastEyebrow(blockData), "Values"))
               /\ blockInfo.isTentative =
                      includes(toLowerCase(OptFirst(Prop(FastStyle(blockData), "Values")).s),
                               disabled)
        /\ (HasFirstBlock(blockData) /\ ~SuppliesLabel(blockData)
                /\ Truthy(findValueByKey(blockData, "eyebrow", 0))) =>
               blockInfo.showTime =
                   OptFirst(Prop(findValueByKey(blockData, "eyebrow", 0), "Values"))


-----------------------------------------------------------------------------
(* processShow and main: the helpers                                       *)

\* Lines 480-487, with the two tests in the other order.
statusOf_activeFirst(closed, schedules) ==
    IF Len(schedules) > 0 THEN "ACTIVE"
    ELSE IF closed THEN "TEMPORARILY_CLOSED" ELSE "UNKNOWN"

\* Lines 480-487: currentStatus.
statusOf(closed, schedules) ==
    IF closed THEN "TEMPORARILY_CLOSED"
    ELSE IF Len(schedules) > 0 THEN "ACTIVE" ELSE "UNKNOWN"

\* Lines 458-477: the listing printed when the page has no calendarConfig and
\* is not closed reads cmsData.ComponentPresentations and cp.Component of each
\* of its elements.
listingThrows(doc) ==
    \/ Nullish(doc)
    \/ LET cps == Or(Prop(doc, "ComponentPresentations"), JArr(<<>>))
       IN  \/ ~Iterable(cps)
           \/ \E i \in DOMAIN Elements(cps) : Nullish(Elements(cps)[i])

\* Lines 508-521: the rows built from the parsed records (collected_at and
\* last_modified, the time of the run, are left out).
buildRecords(showConfig, schedules) ==
    [i \in DOMAIN schedules |->
        [show_id |-> showConfig.show_id,
         show_name |-> showConfig.show_name,
         schedule_date |-> schedules[i].schedule_date,
         show_time |-> schedules[i].show_time,
         status |-> schedules[i].status,
         is_available |-> schedules[i].is_available,
         source_url |-> showConfig.cms_url]]

\* The order of the UTF-16 code units that occur in a date.
CodeUnits == <<"-", "0", "1", "2", "3", "4", "5", "6", "7", "8", "9", "T">>
CodeUnit(c) == CHOOSE i \in DOMAIN CodeUnits : CodeUnits[i] = c

RECURSIVE StrLess(_, _)
\* a < b on strings.
StrLess(a, b) ==
    IF b = <<>> THEN FALSE
    ELSE IF a = <<>> THEN TRUE
    ELSE IF Head(a) = Head(b) THEN StrLess(Tail(a), Tail(b))
    ELSE CodeUnit(Head(a)) < CodeUnit(Head(b))

\* Lines 548-551: the dates of today and later, sorted.
futureDates(schedules, day) ==
    SortSeq(SelectSeq([i \in DOMAIN schedules |-> schedules[i].schedule_date],
                      LAMBDA d : ~StrLess(d, day)),
            StrLess)

\* Lines 554-566: the row handed to upsertShowStatus (last_checked_at, the
\* time of the run, is left out; last_updated_at is that time or undefined).
buildStatusRecord(showConfig, status, schedules, changeList, day) ==
    LET dates == futureDates(schedules, day)
    IN  [show_id |-> showConfig.show_id,
         show_name |-> showConfig.show_name,
         current_status |-> status,
         next_scheduled_date |-> IF dates = <<>> THEN JNull ELSE JStr(dates[1]),
         last_scheduled_date |-> IF dates = <<>> THEN JNull ELSE JStr(dates[Len(dates)]),
         total_scheduled_dates |-> Len(schedules),
         cms_url |-> showConfig.cms_url,
         last_updated_at |-> IF Len(changeList) > 0 THEN "now" ELSE Undefined]

\* Line 448: what processShow returns when the fetch failed.
fetchFailure(showConfig) ==
    [show |-> showConfig.show_id, error |-> "CMS fetch failed",
     schedules |-> 0, changes |-> 0]

\* Line 599: what main records when processShow threw.
fatalResult(show) ==
    [show |-> show.show_id, error |-> "TypeError", schedules |-> 0, changes |-> 0]

\* Lines 572-577: what processShow returns at its end.
showResult(showConfig, status, records, changeList) ==
    [show |-> showConfig.show_id, status |-> status,
     schedules |-> Len(records), changes |-> Len(changeList)]

\* Line 527: the rows of one upsertSchedules call.
BatchSize == 100

\* Lines 526-529: the batch that follows the rows already sent.
nextBatch(records, sent) ==
    SubSeq(records, Len(sent) + 1,
           IF Len(sent) + BatchSize < Len(records) THEN Len(sent) + BatchSize
           ELSE Len(records))

\* Lines 319-329: the table is UNIQUE(show_id, schedule_date); the POST merges
\* each row of the batch into the row of the same key, and the store rejects
\* a batch that names one key twice.
SameKey(a, b) == a.show_id = b.show_id /\ a.schedule_date = b.schedule_date
UniqueKeys(batch) == \A i, j \in DOMAIN batch : SameKey(batch[i], batch[j]) => i = j
mergeDuplicates(rows, batch) ==
    {r \in rows : \A i \in DOMAIN batch : ~SameKey(r, batch[i])}
    \cup {batch[i] : i \in DOMAIN batch}

\* Lines 310-314: the rows of the show dated today or later.
existingRows(rows, showId, day) ==
    {r \in rows : r.show_id = showId /\ ~StrLess(r.schedule_date, day)}

\* The GET names no order: the rows come back in any.
Orders(S) ==
    {f \in [1..Cardinality(S) -> S] : \A i, j \in DOMAIN f : f[i] = f[j] => i = j}

RECURSIVE Sum(_, _)
\* Lines 607-608: results.reduce over one of the counts.
Sum(list, field) ==
    IF list = <<>> THEN 0 ELSE Head(list)[field] + Sum(Tail(list), field)

\* Line 609: r.error is set and not empty.
HasError(r) == "error" \in DOMAIN r

\* Lines 607-609: the totals of the summary.
totals(list) ==
    [totalSchedules |-> Sum(list, "schedules"),
     totalChanges |-> Sum(list, "changes"),
     errors |-> Cardinality({i \in DOMAIN list : HasError(list[i])})]

\* Page models of a run: a closure notice or none, ahead of a calendarConfig
\* or none.
CalendarPresentation(cc) ==
    JObj(<< <<"Component", JObj(<< <<"Fields", JObj(<< <<"calendarConfig", cc>> >>)>> >>)>> >>)

TwoNights ==
    JObj(<< <<"EmbeddedValues",
              JArr(<<CalendarEntry(<<Jan5 \o <<"T", "2", "0">>, Jan6>>, ScheduledBlock)>>)>> >>)
LaterNights ==
    JObj(<< <<"EmbeddedValues",
              JArr(<<CalendarEntry(<<Jan6 \o <<"T", "0", "0">> >>, TentativeBlock),
                     CalendarEntry(<<Jan7>>, ScheduledBlock)>>)>> >>)
NoNights == JObj(<< <<"EmbeddedValues", JArr(<<>>)>> >>)
BrokenNights == JObj(<< <<"EmbeddedValues", JArr(<<JNull>>)>> >>)

MainCalendars == {TwoNights, LaterNights, NoNights, BrokenNights}

MainDocs ==
    {JObj(<< <<"ComponentPresentations", JArr(notice \o calendar)>> >>) :
        notice \in {<<>>, <<Presentation(JArr(<<Feature(JStr(ClosedNotice))>>))>>},
        calendar \in {<<>>} \cup {<<CalendarPresentation(cc)>> : cc \in MainCalendars}}
    \cup {JNull}

\* What the table holds when the run starts.
PriorRow(show, date, label, status) ==
    buildRecords(show, <<ScheduleRecord(date, label, status)>>)[1]

StoreInputs ==
    {{},
     {PriorRow(TRACKED_SHOWS[1], Jan5, Label1, "SCHEDULED"),
      PriorRow(TRACKED_SHOWS[1], Jan7, Label2, "TENTATIVE"),
      PriorRow(TRACKED_SHOWS[2], Jan6, Label1, "SCHEDULED")}}

Days == {Jan5, Jan6}


-----------------------------------------------------------------------------
(* Spec: one run of main over TRACKED_SHOWS.  A step is what runs between  *)
(* two awaited calls.  calls, failed, upserted and statusRecord are those  *)
(* of the show processed last; today is the date of the run.               *)

Init ==
    /\ pc = "start"
    /\ store \in StoreInputs
    /\ today \in Days
    /\ showIdx = 0
    /\ results = <<>>
    /\ calls = <<>>
    /\ failed = {}
    /\ upserted = <<>>
    /\ statusRecord = NoValue
    /\ summary = NoValue
    /\ cmsData = NoValue
    /\ isClosed = FALSE
    /\ currentStatus = "UNKNOWN"
    /\ IdleBlock /\ IdleCalendar /\ IdleDiff

ShowConfig == TRACKED_SHOWS[showIdx]

\* Lines 586-589: SUPABASE_KEY is not set.
MissingKey ==
    /\ pc = "start"
    /\ pc' = "exit"
    /\ UNCHANGED << blockData, blockInfo, calendarConfig, cmsData, isClosed,
                    newSchedules, currentStatus, existingSchedules, changes, runVars >>

\* Lines 591-593: the loop starts at the first show.
StartRun ==
    /\ pc = "start"
    /\ pc' = "processShow"
    /\ showIdx' = 1
    /\ UNCHANGED << blockData, blockInfo, calendarConfig, cmsData, isClosed,
                    newSchedules, currentStatus, existingSchedules, changes,
                    results, calls, failed, upserted, statusRecord, store,
                    today, summary >>

\* Lines 593-601: the result is pushed and the loop goes on to the next show,
\* or ends.
Push(result) ==
    /\ results' = Append(results, result)
    /\ showIdx' = showIdx + 1
    /\ pc' = IF showIdx < Len(TRACKED_SHOWS) THEN "processShow" ELSE "summary"

\* The variables of the show before are cleared when a show begins.
BeginShow ==
    /\ existingSchedules' = <<>>
    /\ changes' = <<>>
    /\ upserted' = <<>>
    /\ statusRecord' = NoValue

\* Variant of the code: a failed fetch ends the loop.
FetchCMSDataFails_endsRun ==
    /\ pc = "processShow"
    /\ calls' = <<"fetchCMSData">>
    /\ failed' = {"fetchCMSData"}
    /\ cmsData' = NoValue
    /\ isClosed' = FALSE
    /\ calendarConfig' = NoValue
    /\ newSchedules' = <<>>
    /\ currentStatus' = "UNKNOWN"
    /\ BeginShow
    /\ results' = Append(results, fetchFailure(ShowConfig))
    /\ showIdx' = showIdx + 1
    /\ pc' = "summary"
    /\ UNCHANGED << blockData, blockInfo, store, today, summary >>

\* Lines 441-449: fetchCMSData throws (the request, the response status or
\* JSON.parse); processShow returns the failure.
FetchCMSDataFails ==
    /\ pc = "processShow"
    /\ calls' = <<"fetchCMSData">>
    /\ failed' = {"fetchCMSData"}
    /\ cmsData' = NoValue
    /\ isClosed' = FALSE
    /\ calendarConfig' = NoValue
    /\ newSchedules' = <<>>
    /\ currentStatus' = "UNKNOWN"
    /\ BeginShow
    /\ Push(fetchFailure(ShowConfig))
    /\ UNCHANGED << blockData, blockInfo, store, today, summary >>

\* Lines 451-487: what processShow does with the page model it fetched: the
\* closure check, the search and the parse; a TypeError of the parse or of the
\* listing goes to the catch of main (lines 597-600).
ExtractFrom(doc) ==
    LET closed == checkTemporarilyClosed(doc)
        config == findCalendarConfig(doc, 0)
        parsed == IF Truthy(config) THEN parseCalendarConfig(config)
                  ELSE IF ~closed /\ listingThrows(doc) THEN TypeError
                  ELSE Return(<<>>)
        called == <<"fetchCMSData", "checkTemporarilyClosed", "findCalendarConfig">>
                  \o (IF Truthy(config) THEN <<"parseCalendarConfig">> ELSE <<>>)
    IN  /\ cmsData' = doc
        /\ isClosed' = closed
        /\ calendarConfig' = config
        /\ calls' = called
        /\ failed' = {}
        /\ BeginShow
        /\ IF parsed = TypeError
           THEN /\ newSchedules' = <<>>
                /\ currentStatus' = "UNKNOWN"
                /\ Push(fatalResult(ShowConfig))
           ELSE /\ newSchedules' = parsed.value
                /\ currentStatus' = statusOf(closed, parsed.value)
                /\ pc' = "fetchExistingSchedules"
                /\ UNCHANGED << showIdx, results >>

\* Lines 441-487: fetchCMSData returns the page model of a show that has a
\* cms_url, and processShow goes on to line 451.
FetchCMSDataReturns ==
    /\ pc = "processShow"
    /\ ShowConfig.cms_url # Undefined
    /\ \E doc \in MainDocs : ExtractFrom(doc)
    /\ UNCHANGED << blockData, blockInfo, store, today, summary >>

\* Lines 499-535: the step after the diff.
afterDiff(schedules, changeList) ==
    IF Len(schedules) > 0 THEN "upsertSchedules"
    ELSE IF Len(changeList) > 0 THEN "logChanges"
    ELSE "upsertShowStatus"

\* Lines 489-499: the rows come back, in some order; detectChanges runs.
FetchExistingSchedulesReturns ==
    /\ pc = "fetchExistingSchedules"
    /\ \E existing \in Orders(existingRows(store, ShowConfig.show_id, today)) :
          /\ existingSchedules' = existing
          /\ changes' = detectChanges(ShowConfig, newSchedules, existing)
    /\ calls' = calls \o <<"fetchExistingSchedules", "detectChanges">>
    /\ pc' = afterDiff(newSchedules, changes')
    /\ UNCHANGED << blockData, blockInfo, calendarConfig, cmsData, isClosed,
                    newSchedules, currentStatus, showIdx, results, failed,
                    upserted, statusRecord, store, today, summary >>

\* Lines 489-499: the request throws; existingSchedules stays empty.
FetchExistingSchedulesFails ==
    /\ pc = "fetchExistingSchedules"
    /\ existingSchedules' = <<>>
    /\ changes' = detectChanges(ShowConfig, newSchedules, <<>>)
    /\ calls' = calls \o <<"fetchExistingSchedules", "detectChanges">>
    /\ failed' = failed \cup {"fetchExistingSchedules"}
    /\ pc' = afterDiff(newSchedules, changes')
    /\ UNCHANGED << blockData, blockInfo, calendarConfig, cmsData, isClosed,
                    newSchedules, currentStatus, showIdx, results,
                    upserted, statusRecord, store, today, summary >>

\* Lines 300-304, 491-496, 362: the response is not JSON and supabaseRequest
\* returns null; reading its length throws into the catch of line 494, and
\* detectChanges throws on iterating null, into the catch of main.
FetchExistingSchedulesReturnsNull ==
    /\ pc = "fetchExistingSchedules"
    /\ calls' = calls \o <<"fetchExistingSchedules", "detectChanges">>
    /\ Push(fatalResult(ShowConfig))
    /\ UNCHANGED << blockData, blockInfo, calendarConfig, cmsData, isClosed,
                    newSchedules, currentStatus, existingSchedules, changes,
                    failed, upserted, statusRecord, store, today, summary >>


\* Lines 537-546: the step after the upsert.
afterUpsert(changeList) ==
    IF Len(changeList) > 0 THEN "logChanges" ELSE "upsertShowStatus"

\* Lines 523-532: upsertSchedules returns for the next batch.
UpsertSchedulesReturns ==
    /\ pc = "upsertSchedules"
    /\ LET records == buildRecords(ShowConfig, newSchedules)
           batch == nextBatch(records, upserted)
       IN  /\ UniqueKeys(batch)
           /\ upserted' = upserted \o batch
           /\ store' = mergeDuplicates(store, batch)
           /\ pc' = IF Len(upserted') < Len(records) THEN "upsertSchedules"
                    ELSE afterUpsert(changes)
    /\ calls' = Append(calls, "upsertSchedules")
    /\ UNCHANGED << blockData, blockInfo, calendarConfig, cmsData, isClosed,
                    newSchedules, currentStatus, existingSchedules, changes,
                    showIdx, results, failed, statusRecord, today, summary >>

\* Variant of the code: a failed upsert is thrown on to main.
UpsertSchedulesFails_thrown ==
    /\ pc = "upsertSchedules"
    /\ upserted' = upserted \o nextBatch(buildRecords(ShowConfig, newSchedules), upserted)
    /\ calls' = Append(calls, "upsertSchedules")
    /\ failed' = failed \cup {"upsertSchedules"}
    /\ Push(fatalResult(ShowConfig))
    /\ UNCHANGED << blockData, blockInfo, calendarConfig, cmsData, isClosed,
                    newSchedules, currentStatus, existingSchedules, changes,
                    statusRecord, store, today, summary >>

\* Lines 523-535: upsertSchedules throws for the next batch; the loop over
\* the batches ends.
UpsertSchedulesFails ==
    /\ pc = "upsertSchedules"
    /\ upserted' = upserted \o nextBatch(buildRecords(ShowConfig, newSchedules), upserted)
    /\ calls' = Append(calls, "upsertSchedules")
    /\ failed' = failed \cup {"upsertSchedules"}
    /\ pc' = afterUpsert(changes)
    /\ UNCHANGED << blockData, blockInfo, calendarConfig, cmsData, isClosed,
                    newSchedules, currentStatus, existingSchedules, changes,
                    showIdx, results, statusRecord, store, today, summary >>

\* Lines 537-542: logChanges returns.
LogChangesReturns ==
    /\ pc = "logChanges"
    /\ calls' = Append(calls, "logChanges")
    /\ pc' = "upsertShowStatus"
    /\ UNCHANGED << blockData, blockInfo, calendarConfig, cmsData, isClosed,
                    newSchedules, currentStatus, existingSchedules, changes,
                    showIdx, results, failed, upserted, statusRecord, store,
                    today, summary >>

\* Lines 537-545: logChanges throws.
LogChangesFails ==
    /\ pc = "logChanges"
    /\ calls' = Append(calls, "logChanges")
    /\ failed' = failed \cup {"logChanges"}
    /\ pc' = "upsertShowStatus"
    /\ UNCHANGED << blockData, blockInfo, calendarConfig, cmsData, isClosed,
                    newSchedules, currentStatus, existingSchedules, changes,
                    showIdx, results, upserted, statusRecord, store,
                    today, summary >>

\* Lines 547-577: upsertShowStatus returns; processShow returns its result.
UpsertShowStatusReturns ==
    /\ pc = "upsertShowStatus"
    /\ statusRecord' = buildStatusRecord(ShowConfig, currentStatus, newSchedules,
                                         changes, today)
    /\ calls' = Append(calls, "upsertShowStatus")
    /\ Push(showResult(ShowConfig, currentStatus,
                       buildRecords(ShowConfig, newSchedules), changes))
    /\ UNCHANGED << blockData, blockInfo, calendarConfig, cmsData, isClosed,
                    newSchedules, currentStatus, existingSchedules, changes,
                    failed, upserted, store, today, summary >>

\* Lines 547-577: upsertShowStatus throws; processShow returns its result.
UpsertShowStatusFails ==
    /\ pc = "upsertShowStatus"
    /\ statusRecord' = buildStatusRecord(ShowConfig, currentStatus, newSchedules,
                                         changes, today)
    /\ calls' = Append(calls, "upsertShowStatus")
    /\ failed' = failed \cup {"upsertShowStatus"}
    /\ Push(showResult(ShowConfig, currentStatus,
                       buildRecords(ShowConfig, newSchedules), changes))
    /\ UNCHANGED << blockData, blockInfo, calendarConfig, cmsData, isClosed,
                    newSchedules, currentStatus, existingSchedules, changes,
                    upserted, store, today, summary >>

\* Lines 603-616: the summary is printed.
PrintSummary ==
    /\ pc = "summary"
    /\ summary' = totals(results)
    /\ pc' = "done"
    /\ UNCHANGED << blockData, blockInfo, calendarConfig, cmsData, isClosed,
                    newSchedules, currentStatus, existingSchedules, changes,
                    showIdx, results, calls, failed, upserted, statusRecord,
                    store, today >>

Next ==
    \/ MissingKey
    \/ StartRun
    \/ FetchCMSDataFails
    \/ FetchCMSDataReturns
    \/ FetchExistingSchedulesReturns
    \/ FetchExistingSchedulesFails
    \/ FetchExistingSchedulesReturnsNull
    \/ UpsertSchedulesReturns
    \/ UpsertSchedulesFails
    \/ LogChangesReturns
    \/ LogChangesFails
    \/ UpsertShowStatusReturns
    \/ UpsertShowStatusFails
    \/ PrintSummary

Spec == Init /\ [][Next]_vars


\* A result was pushed last: calls, failed, upserted and statusRecord are
\* those of the show it belongs to.
Pushed == pc \in {"processShow", "summary", "done"} /\ results # <<>>
LastResult == results[Len(results)]

\* The parsed records among the fields of the rows handed to upsertSchedules.
SchedulesOf(rows) ==
    [i \in DOMAIN rows |->
        [schedule_date |-> rows[i].schedule_date, show_time |-> rows[i].show_time,
         status |-> rows[i].status, is_available |-> rows[i].is_available]]

\* C3: in a processShow run that gets past the fetch, the current_status
\* handed to upsertShowStatus and returned in the result is TEMPORARILY_CLOSED
\* when checkTemporarilyClosed returned true, otherwise ACTIVE when the parse
\* gave at least one record, otherwise UNKNOWN; and when the show is closed
\* and the parse gave records, these records were still diffed against the
\* existing ones and handed to upsertSchedules.
C3_StatusRule ==
    /\ statusRecord # NoValue =>
          LET expected == IF isClosed THEN "TEMPORARILY_CLOSED"
                          ELSE IF newSchedules # <<>> THEN "ACTIVE"
                          ELSE "UNKNOWN"
          IN  /\ statusRecord.current_status = expected
              /\ LastResult.status = expected
              /\ statusRecord.total_scheduled_dates = Len(newSchedules)
    /\ (pc \in {"logChanges", "upsertShowStatus"} \/ statusRecord # NoValue)
       /\ isClosed /\ newSchedules # <<>> =>
          /\ SchedulesOf(upserted) = newSchedules
          /\ \E i \in DOMAIN calls : calls[i] = "detectChanges"
          /\ \A i \in DOMAIN newSchedules :
                \/ \E r \in DOMAIN existingSchedules :
                      existingSchedules[r].schedule_date = newSchedules[i].schedule_date
                \/ \E c \in DOMAIN changes :
                      /\ changes[c].change_date = newSchedules[i].schedule_date
                      /\ changes[c].change_description = "New show date added"

\* A closed show whose calendar gave two records: the status row says
\* TEMPORARILY_CLOSED and both records went to upsertSchedules.
C3_Witness ==
    /\ statusRecord # NoValue
    /\ isClosed
    /\ Len(newSchedules) = 2
    /\ statusRecord.current_status = "TEMPORARILY_CLOSED"
    /\ Len(upserted) = 2
    /\ changes # <<>>

\* C6 as stated: whenever a collaborator call made for a show failed (the
\* fetch of the page, the load of the existing rows, the upsert of the
\* schedule rows, the logging of the changes or the upsert of the status
\* row), the result main records for the show carries an error.
C6_EveryFailureIsError ==
    Pushed /\ failed # {} => HasError(LastResult)

\* C6 as amended: a failed fetch of the page gives a result with an error,
\* counted among the errors of the summary; a failed load of the existing
\* rows, upsert of the schedule rows, logging of the changes or upsert of the
\* status row gives a result without an error, which reports the status and
\* the counts of the run.
C6_OnlyFetchFailureIsError ==
    /\ Pushed /\ "fetchCMSData" \in failed => HasError(LastResult)
    /\ Pushed /\ failed # {} /\ "fetchCMSData" \notin failed =>
          /\ ~HasError(LastResult)
          /\ LastResult.status = currentStatus
          /\ LastResult.schedules = Len(newSchedules)
          /\ LastResult.changes = Len(changes)
    /\ pc = "done" =>
          summary.errors = Cardinality({i \in DOMAIN results : HasError(results[i])})

\* Every call after the fetch failed for a show, and its result has no error.
C6_Witness ==
    /\ Pushed
    /\ failed = {"fetchExistingSchedules", "upsertSchedules", "logChanges",
                 "upsertShowStatus"}
    /\ ~HasError(LastResult)

\* C7: whatever fails, main processes the shows of TRACKED_SHOWS once each, in
\* the order of the list, and has one result per show, in that order, when it
\* prints the summary; and for a show whose fetch failed, the fetch is the
\* only call made.
C7_EveryShowOnce ==
    /\ showIdx >= 1 => Len(results) = showIdx - 1
    /\ \A i \in DOMAIN results : results[i].show = TRACKED_SHOWS[i].show_id
    /\ pc \in {"summary", "done"} => Len(results) = Len(TRACKED_SHOWS)
    /\ calls # <<>> => \A i \in DOMAIN calls : (calls[i] = "fetchCMSData") = (i = 1)
    /\ Pushed /\ "fetchCMSData" \in failed =>
          /\ calls = <<"fetchCMSData">>
          /\ cmsData = NoValue /\ newSchedules = <<>> /\ changes = <<>>
          /\ upserted = <<>> /\ statusRecord = NoValue

\* The run ends after a failed fetch for the first show and a TypeError for
\* the second, with a result for the last show.
C7_Witness ==
    /\ pc = "done"
    /\ HasError(results[1]) /\ results[1].error = "CMS fetch failed"
    /\ HasError(results[2]) /\ results[2].error = "TypeError"
    /\ ~HasError(results[4])
    /\ results[4].status = "ACTIVE"


-----------------------------------------------------------------------------
(* SpecRerun: processShow runs for one show, and, when that run ended with *)
(* no call failed, runs once more for the same show on the same day, with  *)
(* the same page model and the table as the first run left it.  results    *)
(* holds the result of the first run, then that of the second.             *)

InitRerun ==
    /\ pc = "processShow"
    /\ showIdx \in DOMAIN TRACKED_SHOWS
    /\ store \in StoreInputs
    /\ today \in Days
    /\ results = <<>>
    /\ calls = <<>>
    /\ failed = {}
    /\ upserted = <<>>
    /\ statusRecord = NoValue
    /\ summary = NoValue
    /\ cmsData = NoValue
    /\ isClosed = FALSE
    /\ currentStatus = "UNKNOWN"
    /\ IdleBlock /\ IdleCalendar /\ IdleDiff

\* The first run fetches the page, or fails to.
FirstRunFetches ==
    /\ results = <<>>
    /\ (FetchCMSDataFails \/ FetchCMSDataReturns)

\* Lines 593-595: the next run of main comes to the show again; the first
\* run returned a result without an error and none of its calls failed.
RunAgain ==
    /\ Len(results) = 1
    /\ pc \in {"processShow", "summary"}
    /\ results[1].show = TRACKED_SHOWS[showIdx - 1].show_id
    /\ failed = {}
    /\ ~HasError(results[1])
    /\ showIdx' = showIdx - 1
    /\ pc' = "fetchCMSData"
    /\ UNCHANGED << blockData, blockInfo, calendarConfig, cmsData, isClosed,
                    newSchedules, currentStatus, existingSchedules, changes,
                    results, calls, failed, upserted, statusRecord, store,
                    today, summary >>

\* Lines 441-487: in the second run fetchCMSData returns the page model it
\* returned in the first.
FetchSameDocument ==
    /\ pc = "fetchCMSData"
    /\ ExtractFrom(cmsData)
    /\ UNCHANGED << blockData, blockInfo, store, today, summary >>

NextRerun ==
    \/ FirstRunFetches
    \/ RunAgain
    \/ FetchSameDocument
    \/ FetchExistingSchedulesReturns
    \/ FetchExistingSchedulesFails
    \/ FetchExistingSchedulesReturnsNull
    \/ UpsertSchedulesReturns
    \/ UpsertSchedulesFails
    \/ LogChangesReturns
    \/ LogChangesFails
    \/ UpsertShowStatusReturns
    \/ UpsertShowStatusFails

SpecRerun == InitRerun /\ [][NextRerun]_vars

\* The second run has loaded the existing rows and run detectChanges.
SecondRunDiffed ==
    /\ \/ Len(results) = 2 /\ ~HasError(results[2])
       \/ Len(results) = 1 /\ pc \in {"upsertSchedules", "logChanges", "upsertShowStatus"}
    /\ "fetchExistingSchedules" \notin failed

\* C11: when a processShow run for a show ended with none of its calls
\* failed, the run that follows it for the same show, on the same day, over
\* the same page model and with the existing rows loaded from the table as
\* the first run left it, detects no change at all.
C11_SecondRunDetectsNothing ==
    SecondRunDiffed => changes = <<>>

=============================================================================
